---- MODULE Spec2Model ----
(***************************************************************************)
(* Model of the switch-track firmware (src/esp/sim-switch-track.cpp): the  *)
(* WiFi / WebSocket / authentication / command state machine run by        *)
(* setup() and loop().                                                     *)
(*                                                                         *)
(* The firmware is a single task.  The WebSocket library is polled from    *)
(* loop() (webSocket.loop()), so every webSocketEvent callback runs inside *)
(* a loop() iteration.  The WiFi link and the clock belong to the          *)
(* environment: they change whenever the task is suspended in delay().     *)
(* One loop() iteration is therefore one action, except where the code     *)
(* itself calls delay() in the middle of its work (handleConnected's       *)
(* settle delay, connectWiFi's polling and back-off delays): these are     *)
(* split at the delay, and the environment may act in between.             *)
(*                                                                         *)
(* Outbound messages are the records handed to webSocket.sendTXT.  Only    *)
(* the fields the control flow decides are kept (type, position, command,  *)
(* status); moduleId/password are constants and uptime, RSSI and free heap *)
(* are measurements.  Every message also records the link state and the    *)
(* authenticated flag at the moment of the sendTXT call.                   *)
(***************************************************************************)
EXTENDS Integers, Sequences, FiniteSets, TLC

VARIABLES
  wifi,             \* WiFi.status() == WL_CONNECTED (environment)
  ws,               \* transport: "idle" (never begun), "connecting", "open"
  currentPosition,  \* String currentPosition
  isAuthenticated,  \* bool isAuthenticated
  ledLeft,          \* level of LED_LEFT_PIN
  ledRight,         \* level of LED_RIGHT_PIN
  clock,            \* millis()
  now,              \* loop()'s local `now`
  lastHeartbeat,    \* loop()'s static lastHeartbeat
  pc,               \* where the task is: "boot", "wifi", "backoff", "loop", "settle"
  caller,           \* who called connectWiFi: "setup" or "loop"
  attempts,         \* connectWiFi's local `attempts`
  out,              \* messages handed to sendTXT by the last step
  last,             \* the step that led here (see Step)
  sent,             \* the first MaxSent messages sent since the latest Opened event
  hist,             \* what the session has been through (see NextHist)
  hbAt              \* millis() when the latest heartbeat was sent, -1 before the first

vars == <<wifi, ws, currentPosition, isAuthenticated, ledLeft, ledRight, clock,
          now, lastHeartbeat, pc, caller, attempts, out, last, sent, hist, hbAt>>

\* ---------------------------------------------------------------- constants
HEARTBEAT_INTERVAL == 30000
LOOP_DELAY == 100
WIFI_MAX_ATTEMPTS == 20

\* ------------------------------------------------------------------- bounds
\* The clock is explored up to MaxClock ms, in steps of Elapsed.
MaxClock == 60200

\* `sent` keeps the first MaxSent messages after an Opened event.
MaxSent == 2

Elapsed == {HEARTBEAT_INTERVAL, HEARTBEAT_INTERVAL + LOOP_DELAY}

\* ------------------------------------------------------------------ inbound
LeftVerbs == {"switch_left", "left", "switch_to_A"}
RightVerbs == {"switch_right", "right", "switch_to_B"}
QueryVerbs == {"get_position"}
Recognized == LeftVerbs \cup RightVerbs \cup QueryVerbs

\* A "command" payload carries data.command or lacks it ("<missing>").
Missing == "<missing>"
CommandFields == Recognized \cup {"nonsense", Missing}

\* Text frames the server can deliver: the three handled types and one that
\* is none of them (unknown type, no type, or invalid JSON).
Payloads ==
  {[type |-> t, command |-> Missing] : t \in {"connected", "error", "status"}}
    \cup {[type |-> "command", command |-> c] : c \in CommandFields}

\* String command = doc["data"]["command"]: an absent member converts to the
\* text "null".
commandOf(payload) ==
  IF payload.command = Missing THEN "null" ELSE payload.command

\* ------------------------------------------------------------- device state
\* The part of the state the handlers read and write, as one record; tx
\* collects the messages handed to webSocket.sendTXT.
Dev ==
  [pos |-> currentPosition, auth |-> isAuthenticated,
   left |-> ledLeft, right |-> ledRight, tx |-> <<>>]

Message(type, position, command, status, d) ==
  [type |-> type, position |-> position, command |-> command,
   status |-> status, link |-> wifi, auth |-> d.auth]

sendTXT(d, m) == [d EXCEPT !.tx = Append(@, m)]

updateLEDs(d) ==
  IF d.pos = "left" THEN [d EXCEPT !.left = TRUE, !.right = FALSE]
  ELSE IF d.pos = "right" THEN [d EXCEPT !.left = FALSE, !.right = TRUE]
  ELSE d

ledsOff(d) == [d EXCEPT !.left = FALSE, !.right = FALSE]

sendCommandResponse(d, command, status, position) ==
  IF ~d.auth THEN d
  ELSE sendTXT(d, Message("command_response", position, command, status, d))

sendHeartbeat(d) ==
  IF ~d.auth THEN d
  ELSE sendTXT(d, Message("heartbeat", d.pos, "-", "-", d))

sendTelemetry(d) ==
  IF ~d.auth THEN d
  ELSE sendTXT(d, Message("telemetry", d.pos, "-", "operational", d))

\* authenticateModule reporting the boot position instead of the current one.
authenticateModuleBootPosition(d) ==
  sendTXT(d, Message("module_identify", "left", "-", "-", d))

\* authenticateModule that also shows the position on the outputs.
authenticateModuleShowsPosition(d) ==
  updateLEDs(sendTXT(d, Message("module_identify", d.pos, "-", "-", d)))

authenticateModule(d) ==
  sendTXT(d, Message("module_identify", d.pos, "-", "-", d))

\* ----------------------------------------------------------------- handlers
\* handleCommand without its authentication test.
handleCommandNoAuth(d, payload) ==
  LET command == commandOf(payload)
      newPosition ==
        IF command \in LeftVerbs THEN "left"
        ELSE IF command \in RightVerbs THEN "right"
        ELSE d.pos
      status ==
        IF command \in Recognized THEN "success" ELSE "unknown_command"
      d1 == IF command \in LeftVerbs \cup RightVerbs THEN updateLEDs(d) ELSE d
      d2 == [d1 EXCEPT !.pos = newPosition]
  IN sendCommandResponse(d2, command, status, d2.pos)

\* handleCommand with the right-hand verbs toggling the position.
handleCommandToggle(d, payload) ==
  IF ~d.auth THEN d
  ELSE
    LET command == commandOf(payload)
        newPosition ==
          IF command \in LeftVerbs THEN "left"
          ELSE IF command \in RightVerbs
            THEN (IF d.pos = "left" THEN "right" ELSE "left")
          ELSE d.pos
        status ==
          IF command \in Recognized THEN "success" ELSE "unknown_command"
        d1 == IF command \in LeftVerbs \cup RightVerbs THEN updateLEDs(d) ELSE d
        d2 == [d1 EXCEPT !.pos = newPosition]
    IN sendCommandResponse(d2, command, status, d2.pos)

\* handleCommand whose final else branch falls back to the left position.
handleCommandUnknownLeft(d, payload) ==
  IF ~d.auth THEN d
  ELSE
    LET command == commandOf(payload)
        newPosition ==
          IF command \in LeftVerbs THEN "left"
          ELSE IF command \in RightVerbs THEN "right"
          ELSE IF command \in QueryVerbs THEN d.pos
          ELSE "left"
        status ==
          IF command \in Recognized THEN "success" ELSE "unknown_command"
        d1 == IF command \in LeftVerbs \cup RightVerbs THEN updateLEDs(d) ELSE d
        d2 == [d1 EXCEPT !.pos = newPosition]
    IN sendCommandResponse(d2, command, status, d2.pos)

\* handleCommand answering with the position it had before the command.
handleCommandReportsOld(d, payload) ==
  IF ~d.auth THEN d
  ELSE
    LET command == commandOf(payload)
        newPosition ==
          IF command \in LeftVerbs THEN "left"
          ELSE IF command \in RightVerbs THEN "right"
          ELSE d.pos
        status ==
          IF command \in Recognized THEN "success" ELSE "unknown_command"
        d1 == IF command \in LeftVerbs \cup RightVerbs THEN updateLEDs(d) ELSE d
        d2 == [d1 EXCEPT !.pos = newPosition]
    IN sendCommandResponse(d2, command, status, d.pos)

\* handleCommand: updateLEDs() runs inside the verb branches, before
\* `currentPosition = newPosition` is executed.
handleCommand(d, payload) ==
  IF ~d.auth THEN d
  ELSE
    LET command == commandOf(payload)
        newPosition ==
          IF command \in LeftVerbs THEN "left"
          ELSE IF command \in RightVerbs THEN "right"
          ELSE d.pos
        status ==
          IF command \in Recognized THEN "success" ELSE "unknown_command"
        d1 == IF command \in LeftVerbs \cup RightVerbs THEN updateLEDs(d) ELSE d
        d2 == [d1 EXCEPT !.pos = newPosition]
    IN sendCommandResponse(d2, command, status, d2.pos)

\* handleConnected up to its delay(1000).
handleConnected(d) == updateLEDs([d EXCEPT !.auth = TRUE])

\* handleConnected after its delay(1000).
handleConnectedSettled(d) == sendTelemetry(d)

\* handleError that also puts the position back to its default.
handleErrorResetPosition(d) ==
  ledsOff([d EXCEPT !.auth = FALSE, !.pos = "left"])

handleError(d) == ledsOff([d EXCEPT !.auth = FALSE])

\* WStype_DISCONNECTED that clears the flag and leaves the outputs as they are.
handleDisconnectedKeepLeds(d) == [d EXCEPT !.auth = FALSE]

\* WStype_DISCONNECTED that turns the outputs off and keeps the flag.
handleDisconnectedKeepAuth(d) == ledsOff(d)

\* case WStype_DISCONNECTED
handleDisconnected(d) == ledsOff([d EXCEPT !.auth = FALSE])

\* The else branch of loop() putting the position back to its default.
handleLinkDownResetPosition(d) ==
  ledsOff([d EXCEPT !.auth = FALSE, !.pos = "left"])

\* The else branch of loop(), up to the call of connectWiFi().
handleLinkDown(d) == ledsOff([d EXCEPT !.auth = FALSE])

\* case WStype_TEXT: dispatch on doc["type"], for the types whose handlers
\* run to completion inside the callback.
dispatchText(d, payload) ==
  IF payload.type = "command" THEN handleCommand(d, payload)
  ELSE IF payload.type = "error" THEN handleError(d)
  ELSE d

\* now - lastHeartbeat > 30000.  lastHeartbeat is an earlier value of the
\* same monotone clock, which stays below MaxClock, so the unsigned
\* subtraction never wraps.
heartbeatDue(n, lastHb) == (n - lastHb) > HEARTBEAT_INTERVAL

\* The heartbeat sent on the timer alone, whatever the session state.
loopHeartbeatNoAuth(d, n, lastHb) ==
  IF heartbeatDue(n, lastHb)
  THEN sendTXT(d, Message("heartbeat", d.pos, "-", "-", d))
  ELSE d

\* The heartbeat test that ends the link-up branch of loop().
loopHeartbeat(d, n, lastHb) ==
  IF d.auth /\ heartbeatDue(n, lastHb) THEN sendHeartbeat(d) ELSE d

\* --------------------------------------------------------------- bookkeeping
\* The record of a step: the event it handled, the command it carried, the
\* authenticated flag it started from, and whether it is the second of two
\* consecutive deliveries of the same command to an authenticated device.
Step(ev, cmd) ==
  [ev |-> ev, cmd |-> cmd, auth |-> isAuthenticated,
   rep |-> /\ ev = "command" /\ isAuthenticated
           /\ last.ev = "command" /\ last.auth /\ last.cmd = cmd]

\* Events that end the authenticated session.
Boundaries == {"closed", "error", "linkdown"}

\* The session's history after a step that handled `ev` and sent tx:
\*   opened     since the last observed link loss, a transport Opened event
\*              was handled and sent the authentication request;
\*   fresh      since the last observed link loss, such an Opened event and
\*              after it a "connected" ack were handled;
\*   identified the most recent Opened event sent the authentication request;
\*   acked      a "connected" ack was handled after that request, and no
\*              close, server error or observed link loss since;
\*   ended      a close, a server error or an observed link loss has ended
\*              a session at some time since boot.
NextHist(ev, tx) ==
  LET identify == \E i \in DOMAIN tx : tx[i].type = "module_identify"
  IN [opened |-> IF ev = "linkdown" THEN FALSE
                 ELSE IF ev = "opened" THEN identify
                 ELSE hist.opened,
      fresh |-> IF ev = "linkdown" THEN FALSE
                ELSE IF ev = "connected" THEN hist.opened \/ hist.fresh
                ELSE hist.fresh,
      identified |-> IF ev = "opened" THEN identify ELSE hist.identified,
      acked |-> IF ev \in Boundaries \/ ev = "opened" THEN FALSE
                ELSE IF ev = "connected" THEN hist.identified
                ELSE hist.acked,
      ended |-> hist.ended \/ ev \in Boundaries]

Prefix(s, n) == IF Len(s) <= n THEN s ELSE SubSeq(s, 1, n)

\* Write the device record back to the variables after a step that ran the
\* handler `ev`.
Commit(d, ev, cmd) ==
  /\ currentPosition' = d.pos
  /\ isAuthenticated' = d.auth
  /\ ledLeft' = d.left
  /\ ledRight' = d.right
  /\ out' = d.tx
  /\ last' = Step(ev, cmd)
  /\ sent' = IF ev = "opened" THEN d.tx ELSE Prefix(sent \o d.tx, MaxSent)
  /\ hist' = NextHist(ev, d.tx)
  /\ hbAt' = IF \E i \in DOMAIN d.tx : d.tx[i].type = "heartbeat"
             THEN clock ELSE hbAt

\* A step that runs no handler and sends nothing.
Quiet(ev) ==
  /\ out' = <<>>
  /\ last' = Step(ev, "-")
  /\ UNCHANGED <<currentPosition, isAuthenticated, ledLeft, ledRight, sent,
                 hist, hbAt>>

\* End of a link-up loop() iteration that started at time n: heartbeat test.
FinishLoop(d, n, ev, cmd) ==
  LET d2 == loopHeartbeat(d, n, lastHeartbeat)
  IN /\ Commit(d2, ev, cmd)
     /\ lastHeartbeat' = IF d.auth /\ heartbeatDue(n, lastHeartbeat)
                         THEN n ELSE lastHeartbeat

\* ------------------------------------------------------------------ actions
\* `now`, `attempts` and `caller` are locals (a return address, for caller):
\* outside the code that uses them they hold their initial value.
Init ==
  /\ wifi = FALSE
  /\ ws = "idle"
  /\ currentPosition = "left"
  /\ isAuthenticated = FALSE
  /\ ledLeft = FALSE
  /\ ledRight = FALSE
  /\ clock = 0
  /\ now = 0
  /\ lastHeartbeat = 0
  /\ pc = "boot"
  /\ caller = "-"
  /\ attempts = 0
  /\ out = <<>>
  /\ last = [ev |-> "none", cmd |-> "-", auth |-> FALSE, rep |-> FALSE]
  /\ sent = <<>>
  /\ hist = [opened |-> FALSE, fresh |-> FALSE, identified |-> FALSE,
             acked |-> FALSE, ended |-> FALSE]
  /\ hbAt = -1

\* setup() up to the call of connectWiFi(), and connectWiFi() up to its loop.
Setup ==
  /\ pc = "boot"
  /\ Commit(updateLEDs(Dev), "setup", "-")
  /\ pc' = "wifi"
  /\ caller' = "setup"
  /\ attempts' = 0
  /\ UNCHANGED <<wifi, ws, clock, now, lastHeartbeat>>

\* connectSocket(): webSocket.begin() starts a new connection attempt.
connectSocket == "connecting"

\* What the caller of connectWiFi() does when it returns: setup() opens the
\* socket, loop() opens it if the link is up, and both end in the loop.
AfterConnectWiFi ==
  LET call == caller = "setup" \/ wifi
  IN /\ ws' = IF call THEN connectSocket ELSE ws
     /\ pc' = "loop"
     /\ caller' = "-"
     /\ attempts' = 0
     /\ Quiet(IF call THEN "connectSocket" ELSE "wifi_return")
     /\ UNCHANGED <<wifi, clock, now, lastHeartbeat>>

\* connectWiFi()'s while loop without its cap on the attempts.
WiFiPollUncapped ==
  /\ pc = "wifi"
  /\ ~wifi
  /\ attempts' = attempts + 1
  /\ Quiet("wifi_poll")
  /\ UNCHANGED <<wifi, ws, clock, now, lastHeartbeat, pc, caller>>

\* One turn of connectWiFi()'s while loop: delay(500); attempts++.
WiFiPoll ==
  /\ pc = "wifi"
  /\ ~wifi /\ attempts < WIFI_MAX_ATTEMPTS
  /\ attempts' = attempts + 1
  /\ Quiet("wifi_poll")
  /\ UNCHANGED <<wifi, ws, clock, now, lastHeartbeat, pc, caller>>

\* connectWiFi() leaves its loop with the link up and returns.
WiFiConnected ==
  /\ pc = "wifi"
  /\ wifi
  /\ AfterConnectWiFi

\* connectWiFi() leaves its loop with the attempts used up: delay(5000).
WiFiFailed ==
  /\ pc = "wifi"
  /\ ~wifi /\ ~(attempts < WIFI_MAX_ATTEMPTS)
  /\ pc' = "backoff"
  /\ Quiet("wifi_failed")
  /\ UNCHANGED <<wifi, ws, clock, now, lastHeartbeat, caller, attempts>>

\* connectWiFi() returns after the delay(5000) of a failed acquisition.
WiFiBackoffDone ==
  /\ pc = "backoff"
  /\ AfterConnectWiFi

\* loop(), link up, webSocket.loop() delivers no event.
LoopIdle ==
  /\ pc = "loop" /\ wifi
  /\ FinishLoop(Dev, clock, "idle", "-")
  /\ UNCHANGED <<wifi, ws, clock, now, pc, caller, attempts>>

\* loop(), link up, webSocket.loop() delivers WStype_CONNECTED.
LoopOpened ==
  /\ pc = "loop" /\ wifi
  /\ ws = "connecting"
  /\ ws' = "open"
  /\ FinishLoop(authenticateModule(Dev), clock, "opened", "-")
  /\ UNCHANGED <<wifi, clock, now, pc, caller, attempts>>

\* loop(), link up, webSocket.loop() delivers WStype_DISCONNECTED (the stream
\* closed, or a connection attempt failed); the library will retry.
LoopClosed ==
  /\ pc = "loop" /\ wifi
  /\ ws \in {"connecting", "open"}
  /\ ws' = "connecting"
  /\ FinishLoop(handleDisconnected(Dev), clock, "closed", "-")
  /\ UNCHANGED <<wifi, clock, now, pc, caller, attempts>>

\* loop(), link up, webSocket.loop() delivers a WStype_TEXT frame other than
\* "connected".
LoopText ==
  /\ pc = "loop" /\ wifi
  /\ ws = "open"
  /\ \E payload \in Payloads :
       /\ payload.type # "connected"
       /\ FinishLoop(dispatchText(Dev, payload), clock,
                     IF payload.type \in {"command", "error"} THEN payload.type
                     ELSE "other",
                     IF payload.type = "command" THEN commandOf(payload) ELSE "-")
  /\ UNCHANGED <<wifi, ws, clock, now, pc, caller, attempts>>

\* loop(), link up, webSocket.loop() delivers "connected": handleConnected
\* runs up to its delay(1000).
LoopConnected ==
  /\ pc = "loop" /\ wifi
  /\ ws = "open"
  /\ now' = clock
  /\ Commit(handleConnected(Dev), "connected", "-")
  /\ pc' = "settle"
  /\ UNCHANGED <<wifi, ws, clock, lastHeartbeat, caller, attempts>>

\* The delay(1000) is over: handleConnected sends the telemetry, the callback
\* returns and loop() finishes the iteration with the `now` it started with.
SettleDone ==
  /\ pc = "settle"
  /\ FinishLoop(handleConnectedSettled(Dev), now, "settled", "-")
  /\ pc' = "loop"
  /\ now' = 0
  /\ UNCHANGED <<wifi, ws, clock, caller, attempts>>

\* loop(), link down: de-authenticate, outputs off, call connectWiFi().
LoopLinkDown ==
  /\ pc = "loop" /\ ~wifi
  /\ Commit(handleLinkDown(Dev), "linkdown", "-")
  /\ pc' = "wifi"
  /\ caller' = "loop"
  /\ attempts' = 0
  /\ UNCHANGED <<wifi, ws, clock, now, lastHeartbeat>>

\* ---------------------------------------------------------------- environment
\* The link comes up or goes down while the task is in a delay().
LinkChange ==
  /\ pc # "boot"
  /\ wifi' = ~wifi
  /\ Quiet("link")
  /\ UNCHANGED <<ws, clock, now, lastHeartbeat, pc, caller, attempts>>

\* Time passes.
Tick ==
  /\ \E e \in Elapsed : clock + e <= MaxClock /\ clock' = clock + e
  /\ Quiet("tick")
  /\ UNCHANGED <<wifi, ws, now, lastHeartbeat, pc, caller, attempts>>

Next ==
  \/ Setup
  \/ WiFiPoll
  \/ WiFiConnected
  \/ WiFiFailed
  \/ WiFiBackoffDone
  \/ LoopIdle
  \/ LoopOpened
  \/ LoopClosed
  \/ LoopText
  \/ LoopConnected
  \/ SettleDone
  \/ LoopLinkDown
  \/ LinkChange
  \/ Tick

Spec == Init /\ [][Next]_vars

\* The firmware's task: setup() once, then loop() for ever.  The link, the
\* clock and what the transport delivers are not obliged to do anything.
LoopTask ==
  \/ Setup
  \/ WiFiPoll
  \/ WiFiConnected
  \/ WiFiFailed
  \/ WiFiBackoffDone
  \/ LoopIdle
  \/ LoopOpened
  \/ LoopClosed
  \/ LoopText
  \/ LoopConnected
  \/ SettleDone
  \/ LoopLinkDown

\* The task is never suspended for ever: every delay() returns.
FairSpec == Spec /\ WF_vars(LoopTask)

\* The server's answer to an authentication request that is still unanswered:
\* the request is the only message sent since the transport opened.
AnswerIdentify == LoopConnected /\ Len(sent) = 1

\* The task runs for ever, a connection attempt that can succeed again and
\* again does succeed, and an authentication request that stays unanswered
\* is answered with "connected".
LiveSpec ==
  Spec /\ WF_vars(LoopTask) /\ SF_vars(LoopOpened) /\ SF_vars(AnswerIdentify)

\* ------------------------------------------------------------------- claims
Responses(tx) == {i \in DOMAIN tx : tx[i].type = "command_response"}

ApplicationTypes == {"heartbeat", "telemetry", "command_response"}

\* C1: a "command" message handled while isAuthenticated is false changes
\* neither the position nor the outputs nor the flag, and sends nothing.
C1_RejectedWithoutSideEffects ==
  [][(last'.ev = "command" /\ ~isAuthenticated)
       => /\ currentPosition' = currentPosition
          /\ ledLeft' = ledLeft /\ ledRight' = ledRight
          /\ isAuthenticated' = isAuthenticated
          /\ out' = <<>>]_vars

\* C1 witness: a recognized position command has just been handled by an
\* unauthenticated device on an open transport.
C1_Witness ==
  /\ last.ev = "command" /\ ~last.auth
  /\ last.cmd = "switch_right"
  /\ currentPosition = "left" /\ out = <<>>

\* C2: every heartbeat, telemetry and command_response is handed to the
\* transport with isAuthenticated true; an unauthenticated device sends at
\* most the authentication request.
C2_OnlyIdentifyWhileUnauthenticated ==
  \A i \in DOMAIN out :
    /\ out[i].type \in ApplicationTypes => out[i].auth
    /\ ~out[i].auth => out[i].type = "module_identify"

\* C2 witness: a loop iteration ran with the heartbeat timer due on an
\* unauthenticated device, and sent nothing.
C2_Witness ==
  /\ last.ev = "idle" /\ ~last.auth
  /\ heartbeatDue(clock, lastHeartbeat)
  /\ out = <<>>

\* C3: every message is handed to the transport while the link is up.
C3_NoSendWhileLinkDown ==
  \A i \in DOMAIN out : out[i].link

\* C4: whenever a command_response is emitted, exactly the indicator of the
\* position reported in it is active.
C4_OutputsMatchReportedPosition ==
  \A i \in Responses(out) :
    /\ ledLeft <=> (out[i].position = "left")
    /\ ledRight <=> (out[i].position = "right")

\* C5: after a WStype_DISCONNECTED event the device is unauthenticated, the
\* session is closed and both outputs are inactive.
C5_ClosedIsSafe ==
  last.ev = "closed"
    => ~isAuthenticated /\ ws # "open" /\ ~ledLeft /\ ~ledRight

\* C5 witness: the transport closed under an authenticated session.
C5_Witness ==
  /\ last.ev = "closed" /\ last.auth
  /\ ~isAuthenticated /\ ~ledLeft /\ ~ledRight

\* C6: a server "error" message leaves the device unauthenticated on a
\* transport that is still open, with both outputs inactive and the position
\* it had before.
C6_ErrorDeauthenticates ==
  [][last'.ev = "error"
       => /\ ~isAuthenticated'
          /\ ws = "open" /\ ws' = "open"
          /\ ~ledLeft' /\ ~ledRight'
          /\ currentPosition' = currentPosition]_vars

\* C6 witness: an authenticated device in the right position has handled
\* "error".
C6_Witness ==
  /\ last.ev = "error" /\ last.auth
  /\ currentPosition = "right" /\ ~isAuthenticated /\ ws = "open"

\* C7: when an authenticated device handles the same recognized command
\* twice in succession, the second application leaves the position where the
\* first put it, and each application emits exactly one command_response.
C7_Idempotent ==
  [][(last'.rep /\ last'.cmd \in Recognized)
       => /\ currentPosition' = currentPosition
          /\ Cardinality(Responses(out)) = 1
          /\ Cardinality(Responses(out')) = 1]_vars

\* C7 witness: "switch_right" has been applied twice in succession.
C7_Witness ==
  /\ last.rep /\ last.cmd = "switch_right"
  /\ currentPosition = "right"
  /\ Cardinality(Responses(out)) = 1

\* C8: a command outside the recognized set, handled by an authenticated
\* device, leaves the position unchanged and produces exactly one
\* command_response, with status "unknown_command" and that position.
C8_UnknownCommand ==
  [][(last'.ev = "command" /\ isAuthenticated /\ last'.cmd \notin Recognized)
       => /\ currentPosition' = currentPosition
          /\ Cardinality(Responses(out')) = 1
          /\ \A i \in Responses(out') :
               /\ out'[i].status = "unknown_command"
               /\ out'[i].position = currentPosition
               /\ out'[i].command = last'.cmd]_vars

\* C8 witness: "nonsense" has been answered by a device in the right position.
C8_Witness ==
  /\ last.ev = "command" /\ last.auth /\ last.cmd = "nonsense"
  /\ currentPosition = "right"
  /\ \E i \in Responses(out) : out[i].status = "unknown_command"

\* The handshake, with `kind` the type of the authentication request: an
\* Opened event sends exactly one request of that type with the current
\* position; the "connected" handler sends exactly one telemetry with the
\* current position; and the second message after an Opened event is always
\* that telemetry, carrying the position of the request before it.
Handshake(kind) ==
  /\ last.ev = "opened"
       => /\ Len(out) = 1
          /\ out[1].type = kind
          /\ out[1].position = currentPosition
  /\ last.ev = "settled"
       => /\ Len(out) >= 1
          /\ out[1].type = "telemetry"
          /\ out[1].position = currentPosition
          /\ Cardinality({i \in DOMAIN out : out[i].type = "telemetry"}) = 1
  /\ Len(sent) >= 1 => sent[1].type = kind
  /\ Len(sent) >= 2
       => /\ sent[2].type = "telemetry"
          /\ sent[2].position = sent[1].position

C10_ReauthenticatesAfterError ==
  (last.ev = "error")
    ~> (\/ \E i \in DOMAIN out : out[i].type = "module_identify"
        \/ isAuthenticated
        \/ ws # "open")

\* The failures are over: the link is up and no transport close, server
\* error or link loss is handled any more.
Calm == wifi /\ last.ev \notin {"closed", "error", "linkdown"}

\* C11: if the failures eventually stop, the device is authenticated again
\* and again (it does not stay outside Open-Authenticated for ever).
C11_NoDeadEnd == (<>[]Calm) => ([]<>isAuthenticated)

\* Steps in which loop() calls webSocket.loop().
PumpEvents == {"idle", "opened", "closed", "connected", "command", "error", "other"}

\* C12: connectSocket() is called, and the transport is pumped, only with the
\* link up.
C12_LinkCheckedBeforeTransport ==
  /\ last.ev = "connectSocket" => wifi
  /\ last.ev \in PumpEvents => wifi

\* Inbound frames that are malformed: no recognized type (which is also how
\* invalid JSON reads), or a "command" without data.command.
Malformed(step) ==
  \/ step.ev = "other"
  \/ step.ev = "command" /\ step.cmd = commandOf([type |-> "command", command |-> Missing])

\* C13: a malformed inbound frame changes neither the session state nor the
\* position nor the outputs, and no response is sent for it.
C13_MalformedDropped ==
  [][Malformed(last')
       => /\ UNCHANGED <<isAuthenticated, ws, currentPosition, ledLeft, ledRight>>
          /\ Responses(out') = {}]_vars

\* C14: the position changes only in a step that handles a position command
\* on an authenticated device; every other step leaves it as it is.
C14_PositionOnlyByAcceptedCommand ==
  [][currentPosition' # currentPosition
       => /\ last'.ev = "command"
          /\ isAuthenticated
          /\ last'.cmd \in LeftVerbs \cup RightVerbs]_vars

\* C14 witness: the position set to right has survived a link loss, a new
\* connection and a new authentication request.
C14_Witness ==
  /\ last.ev = "opened" /\ currentPosition = "right"
  /\ Len(out) = 1 /\ out[1].position = "right"
  /\ lastHeartbeat > 0

\* C15: connectWiFi() polls at most WIFI_MAX_ATTEMPTS times and always
\* returns to its caller, whether or not the link came up.
C15_ConnectWiFiTerminates ==
  /\ [](attempts <= WIFI_MAX_ATTEMPTS)
  /\ (pc \in {"wifi", "backoff"}) ~> (pc = "loop")

\* C15 witness: connectWiFi() has used all its attempts and returned to
\* loop() with the link still down.
C15_Witness ==
  /\ last.ev = "wifi_return" /\ ~wifi /\ pc = "loop"

\* C16: the step in which loop() observes the link down clears the
\* authenticated flag, turns both outputs off, sends nothing and goes on to
\* connectWiFi(); and every application message sent afterwards follows a
\* transport Opened event, its authentication request and a "connected" ack
\* that all came after that link loss.
C16_FreshHandshakeAfterLinkLoss ==
  /\ last.ev = "linkdown"
       => /\ ~isAuthenticated /\ ~ledLeft /\ ~ledRight
          /\ out = <<>> /\ pc = "wifi"
  /\ \A i \in DOMAIN out :
       out[i].type \in ApplicationTypes => hist.fresh

\* The steps that end an iteration of loop() begun with the link up.
IterationEnds ==
  {"idle", "opened", "closed", "command", "error", "other", "settled"}

Heartbeats(tx) == {i \in DOMAIN tx : tx[i].type = "heartbeat"}

\* C17: an iteration of loop() that ends authenticated with more than
\* HEARTBEAT_INTERVAL on its timer sends one heartbeat, and a heartbeat is
\* never sent less than HEARTBEAT_INTERVAL after the one before it.
C17_HeartbeatSpacing ==
  [][/\ (/\ last'.ev \in IterationEnds /\ isAuthenticated'
         /\ heartbeatDue(IF last'.ev = "settled" THEN now ELSE clock,
                         lastHeartbeat))
       => Cardinality(Heartbeats(out')) = 1
     /\ (Heartbeats(out') # {} /\ hbAt # -1)
       => clock - hbAt >= HEARTBEAT_INTERVAL]_vars

\* C18: a recognized verb handled by an authenticated device produces exactly
\* one command_response, with status "success", the verb, and the position
\* the device has after the command (left for the left verbs, right for the
\* right verbs), whether or not the position changed; "get_position" changes
\* neither the position nor the outputs.
C18_RecognizedVerbAnswered ==
  [][(last'.ev = "command" /\ isAuthenticated /\ last'.cmd \in Recognized)
       => /\ Cardinality(Responses(out')) = 1
          /\ \A i \in Responses(out') :
               /\ out'[i].status = "success"
               /\ out'[i].position = currentPosition'
               /\ out'[i].command = last'.cmd
          /\ last'.cmd \in LeftVerbs => currentPosition' = "left"
          /\ last'.cmd \in RightVerbs => currentPosition' = "right"
          /\ last'.cmd \in QueryVerbs
               => UNCHANGED <<currentPosition, ledLeft, ledRight>>]_vars

\* C18 witness: "get_position" has been answered with "success" and "right"
\* by a device in the right position.
C18_Witness ==
  /\ last.ev = "command" /\ last.auth /\ last.cmd = "get_position"
  /\ currentPosition = "right"
  /\ \E i \in Responses(out) :
       out[i].status = "success" /\ out[i].position = "right"

\* C19: whenever isAuthenticated is true, the most recent transport Opened
\* event sent an authentication request, a "connected" ack was handled after
\* it, and no close, server error or observed link loss has happened since
\* that ack.
C19_AuthenticatedOnlyInsideSession ==
  isAuthenticated => hist.identified /\ hist.acked

\* C19 witness: an authenticated device sends a heartbeat in an idle
\* iteration, inside a session opened, requested and acknowledged.
C19_Witness ==
  /\ isAuthenticated /\ hist.identified /\ hist.acked
  /\ last.ev = "idle" /\ Heartbeats(out) # {}

\* C20: once a close, a server error or an observed link loss has ended a
\* session, both outputs are off in every state in which the device is not
\* authenticated; and the step that handles "connected" leaves exactly the
\* indicator of the current position on.
C20_OutputsOffUntilConnected ==
  /\ (hist.ended /\ ~isAuthenticated) => (~ledLeft /\ ~ledRight)
  /\ last.ev = "connected"
       => /\ isAuthenticated
          /\ ledLeft <=> currentPosition = "left"
          /\ ledRight <=> currentPosition = "right"

\* C20 witness: after a session has ended, a "connected" ack has lit the
\* right indicator alone on a device in the right position.
C20_Witness ==
  /\ hist.ended /\ last.ev = "connected"
  /\ currentPosition = "right" /\ ledRight /\ ~ledLeft

====
